---- MODULE Spec2Model ----
(***************************************************************************)
(* Alert correlation engine of PreTech-NIDS (src/app/alert_system.py):     *)
(* AlertManager.process_detection_result, the rule evaluator, the          *)
(* port-scan aggregator, the dispatcher (_process_alert,                   *)
(* _process_alert_sync, _execute_alert_actions) and the cleanup thread.    *)
(*                                                                         *)
(* Encodings.  Python None is NoIP for an address, NoPort (0, the falsy    *)
(* port) for a port and NoValue (-1) for an absent number.  Confidences    *)
(* and rule thresholds are in percent (0.95 is 95); probabilities,         *)
(* anomaly scores and model thresholds are in thousandths.  Time is in     *)
(* seconds; a timestamp written by isoformat() and read back by            *)
(* fromisoformat() is the same instant, so timestamps are kept as the      *)
(* number of seconds.  The numeric predictions 1 and 0 are the strings     *)
(* "int:1" and "int:0" (TLC does not compare a string with a number).      *)
(***************************************************************************)
EXTENDS Integers, Sequences, FiniteSets, TLC

\* ---------------------------------------------------------------- bounds
MaxEvents == 3        \* calls of process_detection_result in a behaviour
MaxTime == 12         \* the clock stops here
TickStep == 6         \* seconds the clock advances in one step
MaxCleanups == 2      \* iterations of the cleanup thread's loop
MaxFaultEvents == 2   \* calls of process_detection_result under SpecFaults
MaxScanEvents == 11   \* calls of process_detection_result under SpecScan
MaxRaceEvents == 3    \* calls of process_detection_result under SpecRace
MaxDedupEvents == 5   \* calls of process_detection_result under SpecDefaults
MaxDedupTime == 6     \* the clock stops here under SpecDefaults
MaxHistLen == 7       \* longest port history the attack-type probe is given
MaxRaw == 12          \* largest probability or anomaly score of the confidence probe
MaxThreshold == 2     \* largest threshold of the confidence probe
MaxStoreEvents == 1   \* calls of process_detection_result under SpecStore
MaxStoreOps == 1      \* rule-management calls under SpecStore
MaxAckEvents == 1     \* calls of process_detection_result under SpecAck
MaxAckOps == 3        \* acknowledge and resolve requests under SpecAck
MaxAckTime == 2       \* the clock stops here under SpecAck
MaxBroadcasts == 2    \* calls of broadcast_alert under SpecFanout
MaxIterEvents == 1    \* calls of process_detection_result under SpecIter
MaxHistoryEvents == 22 \* calls of process_detection_result under SpecHistory
MaxGroupEvents == 3
MaxDeferredEvents == 2   \* calls of process_detection_result under SpecGroup
DedupTick == 3        \* seconds the clock advances in one step under SpecDefaults

\* ------------------------------------------------------ program constants
PORT_SCAN_WINDOW_SECONDS == 10
PORT_SCAN_PORT_THRESHOLD == 10
HistoryMaxLen == 20
RecentMaxLen == 1000
DedupScan == 50
DedupSeconds == 5

NoIP == "None"
NoPort == 0
NoValue == -1
NoFeature == -1       \* the feature vector has fewer than 3 entries
BadFeature == -2      \* features[2] is not a number

PredAttack == "Attack"
PredNormal == "Normal"
PredOne == "int:1"
PredZero == "int:0"

IPs == {"192.168.1.1", "192.168.1.2"}

Range(s) == {s[i] : i \in DOMAIN s}

\* deque(maxlen=n).append(x)
DequeAppend(s, x, n) == IF Len(s) >= n THEN Append(Tail(s), x) ELSE Append(s, x)

\* list(d)[-n:]
LastN(s, n) == IF Len(s) <= n THEN s ELSE SubSeq(s, Len(s) - n + 1, Len(s))

\* --------------------------------------------------------------- the rules
NoConditions ==
  [keys |-> {}, prediction |-> "", model |-> "", min_confidence |-> 0,
   ports |-> {}, same_ip_count |-> 0, repeat_count |-> 0]

\* An entry of alert_rules: the AlertRule and the dict key it is stored under.
MkRule(id, type, cond, actions, thr) ==
  [key |-> id, id |-> id, alert_type |-> type, conditions |-> cond, actions |-> actions,
   enabled |-> TRUE, threshold |-> thr]

\* The 18 rules of _create_default_rules, in order.  A condition key the
\* evaluator does not read (ports_scanned, country, ...) is left out.
DefaultRules ==
  << MkRule("threat_detection", "threat_detected",
            [NoConditions EXCEPT !.keys = {"prediction"}, !.prediction = PredAttack],
            <<"websocket", "log", "store">>, 70),
     MkRule("high_confidence_threat", "threat_detected",
            [NoConditions EXCEPT !.keys = {"prediction", "min_confidence"},
                                 !.prediction = PredAttack, !.min_confidence = 90],
            <<"websocket", "log", "store", "email">>, 90),
     MkRule("multiple_attacks_same_ip", "multiple_attacks",
            [NoConditions EXCEPT !.keys = {"same_ip_count"}, !.same_ip_count = 5],
            <<"websocket", "log", "store">>, NoValue),
     MkRule("suspicious_ports", "high_risk_port",
            [NoConditions EXCEPT !.keys = {"ports"},
                                 !.ports = {22, 23, 80, 443, 8080, 8180, 8009, 3389, 445, 135, 21}],
            <<"websocket", "log", "store">>, NoValue),
     MkRule("zero_day_detection", "zero_day_attack",
            [NoConditions EXCEPT !.keys = {"model", "prediction"},
                                 !.model = "Kitsune", !.prediction = PredAttack],
            <<"websocket", "log", "store", "email">>, 2),
     MkRule("brute_force_detection", "brute_force",
            [NoConditions EXCEPT !.keys = {"ports", "repeat_count"},
                                 !.ports = {22, 23, 3389, 21}, !.repeat_count = 5],
            <<"websocket", "log", "store">>, NoValue),
     MkRule("ssh_brute_force_detection", "brute_force",
            [NoConditions EXCEPT !.keys = {"ports", "repeat_count"},
                                 !.ports = {22}, !.repeat_count = 3],
            <<"websocket", "log", "store">>, NoValue),
     MkRule("port_scan_detection", "anomaly_detected", NoConditions,
            <<"websocket", "log", "store">>, NoValue),
     MkRule("ddos_detection", "anomaly_detected", NoConditions,
            <<"websocket", "log", "store", "email">>, NoValue),
     MkRule("suspicious_country", "suspicious_ip", NoConditions,
            <<"websocket", "log", "store", "email">>, NoValue),
     MkRule("malware_traffic", "threat_detected", NoConditions,
            <<"websocket", "log", "store", "email">>, NoValue),
     MkRule("ransomware_behavior", "anomaly_detected", NoConditions,
            <<"websocket", "log", "store", "email">>, NoValue),
     MkRule("data_exfiltration", "anomaly_detected", NoConditions,
            <<"websocket", "log", "store", "email">>, NoValue),
     MkRule("privilege_escalation", "anomaly_detected", NoConditions,
            <<"websocket", "log", "store", "email">>, NoValue),
     MkRule("lateral_movement", "anomaly_detected", NoConditions,
            <<"websocket", "log", "store", "email">>, NoValue),
     MkRule("phishing_attempt", "threat_detected", NoConditions,
            <<"websocket", "log", "store", "email">>, NoValue),
     MkRule("internal_recon", "anomaly_detected", NoConditions,
            <<"websocket", "log", "store">>, NoValue),
     MkRule("unauthorized_access", "threat_detected", NoConditions,
            <<"websocket", "log", "store", "email">>, NoValue) >>

\* ------------------------------------------------------- pure functions

\* _extract_target_port: int(features[2]) when the vector has 3 entries and
\* features[2] > 0, None otherwise.
ExtractTargetPort(feat) == IF feat > 0 THEN feat ELSE NoPort

\* features[2] > 0 raises TypeError when features[2] is not a number.
ExtractTargetPortRaises(feat) == feat = BadFeature

\* _extract_source_ip: a random 192.168.x.y address (rip) when the event
\* names an interface, None otherwise.  The event's src_ip is not read.
ExtractSourceIP(ev, rip) == IF ev.interface THEN rip ELSE NoIP

\* model_thresholds, as _load_model_thresholds leaves it: no threshold file.
ModelThresholds(model) == NoValue

\* The cached threshold only.
GetModelThresholdCached(ev) == ModelThresholds(ev.model)

\* _get_model_threshold: the event's threshold, else the cached one.
GetModelThreshold(ev) ==
  IF ev.threshold # NoValue THEN ev.threshold ELSE ModelThresholds(ev.model)

\* _calculate_confidence, in percent.  ratio > k is raw > k * threshold.
CalculateConfidence(ev) ==
  LET thr == GetModelThreshold(ev)
      known == thr # NoValue /\ thr > 0
      p == ev.probability
      a == ev.anomaly_score
  IN IF p # NoValue
       THEN IF known
              THEN IF p > 5 * thr THEN 95
                   ELSE IF p > 2 * thr THEN 85
                   ELSE IF p > thr THEN 70 ELSE 60
              ELSE IF p >= 950 THEN 95
                   ELSE IF p >= 850 THEN 85
                   ELSE IF p >= 700 THEN 70 ELSE 60
     ELSE IF a # NoValue
       THEN IF known
              THEN IF a > 5 * thr THEN 95
                   ELSE IF a > 2 * thr THEN 85
                   ELSE IF a > thr THEN 75
                   ELSE IF 2 * a > thr THEN 65 ELSE 55
              ELSE IF a > 10000000 THEN 95
                   ELSE IF a > 1000000 THEN 85
                   ELSE IF a > 100000 THEN 75
                   ELSE IF a > 10000 THEN 65 ELSE 55
     ELSE 60

\* _check_rule_conditions: "match", "nomatch", or "raise" when the feature
\* vector cannot be read.  rip is the address _extract_source_ip draws for
\* this rule; ipc and ppc are ip_alert_counts and port_alert_counts.
CheckRuleConditions(rule, ev, rip, ipc, ppc) ==
  LET c == rule.conditions
      conf == CalculateConfidence(ev)
      port == ExtractTargetPort(ev.feat)
      sip == ExtractSourceIP(ev, rip)
  IN IF "prediction" \in c.keys /\ ev.prediction # c.prediction THEN "nomatch"
     ELSE IF "model" \in c.keys /\ ev.model # c.model THEN "nomatch"
     ELSE IF "min_confidence" \in c.keys /\ conf < c.min_confidence THEN "nomatch"
     ELSE IF rule.threshold # NoValue /\ conf < rule.threshold THEN "nomatch"
     ELSE IF "ports" \in c.keys /\ ExtractTargetPortRaises(ev.feat) THEN "raise"
     ELSE IF "ports" \in c.keys /\ port \notin c.ports THEN "nomatch"
     ELSE IF "same_ip_count" \in c.keys /\ sip # NoIP /\ ipc[sip] < c.same_ip_count
       THEN "nomatch"
     ELSE IF "repeat_count" \in c.keys /\ ExtractTargetPortRaises(ev.feat) THEN "raise"
     ELSE IF "repeat_count" \in c.keys /\ port # NoPort /\ ppc[port] < c.repeat_count
       THEN "nomatch"
     ELSE "match"

\* Severity by confidence alone.
AlertLevelByConfidence(confidence, alert_type) ==
  IF confidence >= 90 THEN "critical"
  ELSE IF confidence >= 80 THEN "high"
  ELSE IF confidence >= 60 THEN "medium"
  ELSE "low"

\* The severity tiers of _create_alert.
AlertLevel(confidence, alert_type) ==
  IF confidence >= 90 \/ alert_type = "zero_day_attack" THEN "critical"
  ELSE IF confidence >= 80 THEN "high"
  ELSE IF confidence >= 60 THEN "medium"
  ELSE "low"

\* _create_alert (title, message and threat_details are not modelled).
CreateAlert(rule, ev, source_ip, target_port, confidence, attack_type, id, t) ==
  [id |-> id, rule_id |-> rule.id, alert_type |-> rule.alert_type,
   level |-> AlertLevel(confidence, rule.alert_type),
   source_ip |-> source_ip, target_port |-> target_port, model |-> ev.model,
   confidence |-> confidence, timestamp |-> t, attack_type |-> attack_type]

\* The Alert built by _check_port_scan_rule.
PortScanAlert(source_ip, id, t) ==
  [id |-> id, rule_id |-> "port_scan_rule", alert_type |-> "anomaly_detected",
   level |-> "high", source_ip |-> source_ip, target_port |-> NoPort,
   model |-> "Rule-based", confidence |-> 100, timestamp |-> t,
   attack_type |-> "Port Scan"]

\* The ordered port table of process_detection_result, first match wins.
PortTable ==
  << <<{22, 2222, 2200, 2022}, "SSH Brute Force">>,
     <<{80, 443, 8080, 8180, 8009, 8443}, "Tomcat">>,
     <<{4444, 4445, 5555, 6666, 7777, 8888, 9999}, "Reverse Shell">>,
     <<{21, 6200, 31337, 12345, 54321}, "Backdoor">>,
     <<{3389, 3388, 3390}, "RDP Brute Force">>,
     <<{23, 2323, 2300}, "Telnet Brute Force">>,
     <<5900..5905, "VNC Attack">>,
     <<{1433, 3306, 5432, 1521, 27017, 6379}, "Database Attack">>,
     <<{25, 110, 143, 993, 995, 587, 465}, "Mail Server Attack">>,
     <<{53, 5353}, "DNS Attack">>,
     <<{139, 445, 135}, "SMB Attack">>,
     <<(8081..8090) \cup {8443, 9443}, "Web Attack">>,
     <<{1337, 31337, 12345, 54321, 6666, 6667, 6668, 6669, 7000, 7001, 7002}, "Malware C2">>,
     <<{80, 443} \cup (8000..8010), "Phishing Attack">>,
     <<{443, 8443, 9443, 10443, 11443, 12443, 13443, 14443, 15443}, "Ransomware">>,
     <<{3333, 4444, 5555, 7777, 8888, 9999, 14444, 15555, 16666, 17777, 18888, 19999},
       "Crypto Mining">>,
     <<{1883, 8883, 5683, 5684} \cup (1884..1890), "IoT Attack">>,
     <<{502, 503, 504, 102, 44818, 47808} \cup (20000..20005), "ICS Attack">>,
     <<{2049, 111} \cup (2040..2048), "File Sharing Attack">>,
     <<3388..3399, "Remote Access Attack">>,
     <<(25565..25570) \cup (7777..7781), "Gaming C2">>,
     <<9000..9010, "Custom App Attack">> >>

\* The last entry of the table that lists the port.
LastInTable(port) ==
  LET hits == {i \in DOMAIN PortTable : port \in PortTable[i][1]}
  IN IF hits = {} THEN 0 ELSE CHOOSE i \in hits : \A j \in hits : i >= j

FirstInTable(port) ==
  LET hits == {i \in DOMAIN PortTable : port \in PortTable[i][1]}
  IN IF hits = {} THEN 0 ELSE CHOOSE i \in hits : \A j \in hits : i <= j

\* The attack type of an attack event with a source address and a port:
\* the upstream label if any, else the port table, the SYN-only test and
\* the port-history test, in that order.  histlen is the length of the
\* address' port history after this event's entry was appended.
InferAttackType(ev, target_port, histlen) ==
  IF ev.attack_type # "" \/ ev.protocol \notin {"TCP", "UDP"} THEN ev.attack_type
  ELSE IF FirstInTable(target_port) # 0 THEN PortTable[FirstInTable(target_port)][2]
  ELSE IF ev.protocol = "TCP" /\ ev.tcp_flags = "SYNONLY" THEN "SYN Flood"
  ELSE IF histlen > 5 THEN "Port Scan"
  ELSE ""

\* ------------------------------------------------------------ dispatcher
\* The dispatcher works on a record d of what it reads and writes:
\*   recent  recent_alerts          tasks  tasks created on the event loop
\*   adb     alerts_collection      hdb    alert_history_collection
\*   log     log lines, as <<kind, alert id>>
\*   sent    ids of the alerts handed to broadcast_alert
\*   nid     the next fresh alert id (uuid4 never repeats)
\*   done    when _process_alert ran for each alert, as <<alert id, time>>

\* A dedup that looks at the last 10 entries only.
RecentSameShort(recent, alert, t) ==
  {a \in Range(LastN(recent, 10)) :
     /\ a.id # alert.id
     /\ a.source_ip = alert.source_ip
     /\ a.alert_type = alert.alert_type
     /\ a.level = alert.level
     /\ a.model = alert.model
     /\ t - a.timestamp < DedupSeconds}

\* recent_same of _execute_alert_actions: the other alerts among the last
\* 50 of recent_alerts with this alert's address, type, level and model and
\* a timestamp less than 5 seconds before t.
RecentSame(recent, alert, t) ==
  {a \in Range(LastN(recent, DedupScan)) :
     /\ a.id # alert.id
     /\ a.source_ip = alert.source_ip
     /\ a.alert_type = alert.alert_type
     /\ a.level = alert.level
     /\ a.model = alert.model
     /\ t - a.timestamp < DedupSeconds}

\* _execute_alert_actions: websocket unless recent_same, log; store and
\* email change nothing that is modelled.  With fault "websocket" the send
\* inside broadcast_alert raises: it is caught there and logged.
ExecuteAlertActions(d, alert, actions, fault, t) ==
  LET suppressed == RecentSame(d.recent, alert, t) # {}
      ws == "websocket" \in Range(actions) /\ ~suppressed
      lg == "log" \in Range(actions)
      lines == (IF ws /\ fault = "websocket" THEN {<<"send failed", alert.id>>} ELSE {})
                 \cup (IF lg THEN {<<"SECURITY ALERT", alert.id>>} ELSE {})
  IN [d EXCEPT !.sent = IF ws THEN @ \cup {alert.id} ELSE @,
               !.log = @ \cup lines]

\* alert_rules.get(rule_id): the set of rules stored under that key.
RulesById(rules, id) == {rules[i] : i \in {j \in DOMAIN rules : rules[j].key = id}}

\* _process_alert (sync = FALSE) and _process_alert_sync (sync = TRUE).
\* fault is the collaborator that fails during the call: "alerts" and
\* "history" are the two insert_one calls, "loop" is the event loop that
\* _process_alert_sync creates for the actions, "websocket" the send to the
\* connected clients.
ProcessAlert(d, alert, rules, fault, t, sync) ==
  LET d1 == [d EXCEPT !.recent = DequeAppend(@, alert, RecentMaxLen),
                      !.done = @ \cup {<<alert.id, t>>}]
      d2 == [d1 EXCEPT !.adb = @ \cup {alert}]
      d3 == [d2 EXCEPT !.hdb = @ \cup {[alert_id |-> alert.id, action |-> "created"]}]
      found == RulesById(rules, alert.rule_id)
      rule == CHOOSE r \in found : TRUE
  IN IF fault = "alerts" THEN [d1 EXCEPT !.log = @ \cup {<<"error", alert.id>>}]
     ELSE IF fault = "history" THEN [d2 EXCEPT !.log = @ \cup {<<"error", alert.id>>}]
     ELSE IF found = {} THEN d3
     ELSE IF sync /\ fault = "loop"
       THEN [d3 EXCEPT !.log = @ \cup {<<"SECURITY ALERT", alert.id>>}]
     ELSE ExecuteAlertActions(d3, alert, rule.actions, fault, t)

\* The hand-over in process_detection_result and _check_port_scan_rule:
\* mode "running": get_event_loop() is running, loop.create_task;
\* mode "idle": the loop is not running, asyncio.run(_process_alert);
\* mode "noloop": get_event_loop() raises, _process_alert_sync.
Dispatch(d, alert, rules, fault, t, mode) ==
  IF mode = "running" THEN [d EXCEPT !.tasks = Append(@, alert)]
  ELSE ProcessAlert(d, alert, rules, fault, t, mode = "noloop")

\* if not rule.enabled: continue
Considered(rule) == rule.enabled

\* The loop over alert_rules.values().  c is the call's context.  The
\* result is the dispatcher record, the ids of the rules that matched and
\* exc, TRUE when _check_rule_conditions raised, which ends the loop.
\* After[i] is the result once the first i rules have been looked at.
RuleLoop(d, c) ==
  LET After[i \in 0 .. Len(c.rules)] ==
        IF i = 0 THEN [d |-> d, exc |-> FALSE, matched |-> {}]
        ELSE LET prev == After[i - 1]
                 rule == c.rules[i]
                 res == CheckRuleConditions(rule, c.ev, c.draw[i], c.ipc, c.ppc)
                 alert == CreateAlert(rule, c.ev, c.source_ip, c.target_port,
                                      c.confidence, c.attack_type, prev.d.nid, c.t)
                 dn == [prev.d EXCEPT !.nid = @ + 1]
             IN IF prev.exc \/ ~Considered(rule) THEN prev
                ELSE IF res = "raise" THEN [prev EXCEPT !.exc = TRUE]
                ELSE IF res = "match"
                  THEN [prev EXCEPT
                          !.d = Dispatch(dn, alert, c.rules, c.fault, c.t, c.mode),
                          !.matched = @ \cup {rule.id}]
                ELSE prev
  IN After[Len(c.rules)]

\* recent_ports / unique_ports of _check_port_scan_rule.
UniquePorts(history, t) ==
  {history[i][1] : i \in {j \in DOMAIN history :
                            t - history[j][2] <= PORT_SCAN_WINDOW_SECONDS}}

\* _check_port_scan_rule on the port history hist of source_ip: the
\* dispatcher record and the history it leaves.
CheckPortScanRule(d, hist, source_ip, rules, fault, t, mode) ==
  IF Cardinality(UniquePorts(hist, t)) >= PORT_SCAN_PORT_THRESHOLD
    THEN [d |-> Dispatch([d EXCEPT !.nid = @ + 1], PortScanAlert(source_ip, d.nid, t),
                         rules, fault, t, mode),
          hist |-> <<>>]
    ELSE [d |-> d, hist |-> hist]

\* ------------------------------------------------------------------ state
VARIABLES
  now,                       \* get_beijing_time(), in seconds
  alert_rules,               \* AlertManager.alert_rules, in insertion order
  ip_alert_counts,           \* AlertManager.ip_alert_counts
  port_alert_counts,         \* AlertManager.port_alert_counts
  alert_counts,              \* AlertManager.alert_counts (its keys)
  ip_port_history,           \* AlertManager.ip_port_history
  recent_alerts,             \* AlertManager.recent_alerts
  tasks,                     \* _process_alert tasks pending on the event loop
  alerts_collection,         \* the persisted alerts
  alert_history_collection,  \* the persisted history entries
  log_lines,                 \* the log, as <<kind, alert id>>
  broadcasts,                \* ids of the alerts handed to broadcast_alert
  next_id,                   \* the next uuid4
  processed,                 \* <<alert id, time>> of every _process_alert run
  db_fault,                  \* the collaborator that is failing now
  nevents,                   \* calls of process_detection_result so far
  cleanups,                  \* iterations of cleanup_task so far
  threads,                   \* where each thread is inside process_detection_result
  alert_rules_collection,    \* the persisted rule documents, in insertion order
  startup,                   \* AlertManager(): "pending", "done" or "failed"
  reply,                     \* what the latest rule-management call did
  alert_status,              \* acknowledgment and resolution fields of the stored alerts
  active_connections,        \* AlertManager.active_connections
  fanout,                    \* the broadcast_alert call in progress
  delivered,                 \* <<client, alert id>> of every send_text that succeeded
  accepted,                  \* the websockets add_connection has accepted so far
  iteration,                 \* the loop over alert_rules.values() in progress
  probe,                     \* a pure function's arguments and its result
  last                       \* what the latest process_detection_result did

vars ==
  <<now, alert_rules, ip_alert_counts, port_alert_counts, alert_counts, ip_port_history,
    recent_alerts, tasks, alerts_collection, alert_history_collection, log_lines,
    broadcasts, next_id, processed, db_fault, nevents, cleanups, threads,
    alert_rules_collection, startup, reply, alert_status, active_connections, fanout,
    delivered, accepted, iteration, probe, last>>

\* The state of the rule management, the alert management, the websocket
\* fan-out and the function probe.
management ==
  <<alert_rules_collection, startup, reply, alert_status, active_connections, fanout,
    delivered, accepted, iteration, probe>>

Ports == (1 .. MaxScanEvents + 1) \cup {22, 80}

Faults == {"none", "alerts", "history", "loop", "websocket"}

\* The live-capture thread (RealTimeDetector) and the event-loop thread that
\* serves the requests (predict).
Threads == {"capture", "request"}

Modes == {"running", "idle", "noloop"}

BaseEvent ==
  [prediction |-> PredAttack, model |-> "RandomForest", probability |-> 990,
   anomaly_score |-> NoValue, threshold |-> NoValue, src_ip |-> NoIP,
   interface |-> FALSE, dst_port |-> NoPort, feat |-> NoFeature, protocol |-> "TCP",
   attack_type |-> "", tcp_flags |-> ""]

NoCall ==
  [ev |-> BaseEvent, called |-> FALSE, source_ip |-> NoIP, target_port |-> NoPort,
   matched |-> {}, scan_checked |-> FALSE, exc |-> FALSE, propagated |-> FALSE,
   ipc |-> [ip \in IPs |-> 0], ppc |-> [p \in Ports |-> 0], rules |-> <<>>,
   first_id |-> 0]

\* asdict(rule): the document of a rule (the dict key is not part of it).
AsDict(rule) == [f \in DOMAIN rule \ {"key"} |-> rule[f]]

NoReply == [op |-> "none", ok |-> FALSE, key |-> "", data |-> <<>>, n |-> 0, created |-> 0]

NoFanout ==
  [active |-> FALSE, alert |-> 0, start |-> {}, size |-> 0, todo |-> {}, failed |-> {},
   left |-> {}, raised |-> FALSE, sending |-> ""]

NoProbe == [fn |-> "none", done |-> TRUE]

NoIteration ==
  [active |-> FALSE, ended |-> FALSE, ev |-> BaseEvent, mode |-> "idle", used |-> 0,
   seen |-> {}, evaluated |-> {}, matched |-> {}, raised |-> FALSE,
   scan_checked |-> FALSE, before |-> <<>>, after |-> <<>>]

IdleThread == [pc |-> "idle", ev |-> BaseEvent, reg |-> 0]

Pack ==
  [recent |-> recent_alerts, tasks |-> tasks, adb |-> alerts_collection,
   hdb |-> alert_history_collection, log |-> log_lines, sent |-> broadcasts,
   nid |-> next_id, done |-> processed]

Unpack(d) ==
  /\ recent_alerts' = d.recent
  /\ tasks' = d.tasks
  /\ alerts_collection' = d.adb
  /\ alert_history_collection' = d.hdb
  /\ log_lines' = d.log
  /\ broadcasts' = d.sent
  /\ next_id' = d.nid
  /\ processed' = d.done

\* The fields AlertManager.__init__ sets, with rules in alert_rules.
EngineInit(rules) ==
  /\ now = 0
  /\ alert_rules = rules
  /\ ip_alert_counts = [ip \in IPs |-> 0]
  /\ port_alert_counts = [p \in Ports |-> 0]
  /\ alert_counts = {}
  /\ ip_port_history = [ip \in IPs \cup {NoIP} |-> <<>>]
  /\ recent_alerts = <<>>
  /\ tasks = <<>>
  /\ alerts_collection = {}
  /\ alert_history_collection = {}
  /\ log_lines = {}
  /\ broadcasts = {}
  /\ next_id = 1
  /\ processed = {}
  /\ db_fault = "none"
  /\ nevents = 0
  /\ cleanups = 0
  /\ threads = [t \in Threads |-> IdleThread]
  /\ last = NoCall

\* No management call, no websocket client and no alert update so far.
QuietManagement ==
  /\ reply = NoReply
  /\ alert_status = <<>>
  /\ active_connections = {}
  /\ fanout = NoFanout
  /\ delivered = {}
  /\ accepted = {}
  /\ iteration = NoIteration

\* The state once AlertManager() has returned, with the rules
\* _load_alert_rules found in alert_rules_collection.
InitWith(rules) ==
  /\ EngineInit(rules)
  /\ alert_rules_collection = [i \in DOMAIN rules |-> AsDict(rules[i])]
  /\ startup = "done"
  /\ QuietManagement
  /\ probe = NoProbe

\* Without the try/except around the body an exception reaches the caller.
EscapesUncaught(exc) == exc

\* The except clause of process_detection_result catches every Exception:
\* nothing escapes to the caller.
Escapes(exc) == FALSE

\* The source address and the destination port process_detection_result
\* takes from the event (r1 is the address _extract_source_ip draws).
SourceIP(ev, r1) == IF ev.src_ip # NoIP THEN ev.src_ip ELSE ExtractSourceIP(ev, r1)

TargetPort(ev) == IF ev.dst_port # NoPort THEN ev.dst_port ELSE ExtractTargetPort(ev.feat)

\* ip_alert_counts[source_ip] += 1 and port_alert_counts[target_port] += 1.
IncrementIp(counts, source_ip) ==
  IF source_ip # NoIP THEN [counts EXCEPT ![source_ip] = @ + 1] ELSE counts

IncrementPort(counts, target_port) ==
  IF target_port # NoPort THEN [counts EXCEPT ![target_port] = @ + 1] ELSE counts

\* process_detection_result(detection_data), called where the event loop is
\* in state mode.  r1 is the address _extract_source_ip draws at the top of
\* the handler, draw[i] the one it draws while rule i is checked; ipc and
\* ppc are the counters as the "Update counters" block leaves them for an
\* attack event.
HandleDetection(ev, mode, r1, draw, ipc, ppc) ==
  LET raise402 == ev.prediction = PredOne      \* len(prediction) of an int
      source_ip == SourceIP(ev, r1)
      raise409 == ev.dst_port = NoPort /\ ExtractTargetPortRaises(ev.feat)
      target_port == TargetPort(ev)
      confidence == CalculateConfidence(ev)
      is_attack == ev.prediction \in {PredAttack, PredOne}
      both == source_ip # NoIP /\ target_port # NoPort
      hist0 == ip_port_history[source_ip]
      histA == IF both THEN DequeAppend(hist0, <<target_port, now>>, HistoryMaxLen)
               ELSE hist0
      atype == IF both THEN InferAttackType(ev, target_port, Len(histA))
               ELSE ev.attack_type
      c == [ev |-> ev, draw |-> draw, ipc |-> ipc, ppc |-> ppc, rules |-> alert_rules,
            source_ip |-> source_ip, target_port |-> target_port,
            confidence |-> confidence, attack_type |-> atype, fault |-> db_fault,
            t |-> now, mode |-> mode]
      loop == RuleLoop(Pack, c)
      scanA == CheckPortScanRule(loop.d, histA, source_ip, alert_rules, db_fault, now, mode)
      scanN == CheckPortScanRule(Pack, hist0, source_ip, alert_rules, db_fault, now, mode)
      histN == IF both THEN DequeAppend(scanN.hist, <<target_port, now>>, HistoryMaxLen)
               ELSE scanN.hist
      call == [NoCall EXCEPT !.ev = ev, !.called = TRUE, !.rules = alert_rules,
                           !.first_id = next_id]
  IN /\ nevents' = nevents + 1
     /\ UNCHANGED <<now, alert_rules, alert_counts, db_fault, cleanups>>
     /\ UNCHANGED management
     /\ IF raise402 \/ raise409
          THEN /\ UNCHANGED <<ip_alert_counts, port_alert_counts, ip_port_history,
                              recent_alerts, tasks, alerts_collection,
                              alert_history_collection, log_lines, broadcasts, next_id,
                              processed>>
               /\ last' = [call EXCEPT !.exc = TRUE, !.propagated = Escapes(TRUE),
                                       !.ipc = ip_alert_counts, !.ppc = port_alert_counts]
        ELSE IF is_attack
          THEN /\ ip_alert_counts' = ipc
               /\ port_alert_counts' = ppc
               /\ IF loop.exc
                    THEN /\ Unpack(loop.d)
                         /\ ip_port_history' = [ip_port_history EXCEPT ![source_ip] = histA]
                    ELSE /\ Unpack(scanA.d)
                         /\ ip_port_history' =
                              [ip_port_history EXCEPT ![source_ip] = scanA.hist]
               /\ last' = [call EXCEPT !.source_ip = source_ip,
                                       !.target_port = target_port,
                                       !.matched = loop.matched,
                                       !.scan_checked = ~loop.exc,
                                       !.exc = loop.exc,
                                       !.propagated = Escapes(loop.exc),
                                       !.ipc = ipc, !.ppc = ppc]
        ELSE /\ UNCHANGED <<ip_alert_counts, port_alert_counts>>
             /\ Unpack(scanN.d)
             /\ ip_port_history' = [ip_port_history EXCEPT ![source_ip] = histN]
             /\ last' = [call EXCEPT !.source_ip = source_ip, !.target_port = target_port,
                                     !.scan_checked = TRUE,
                                     !.ipc = ip_alert_counts, !.ppc = port_alert_counts]

\* A whole call of process_detection_result, with no other thread inside.
ProcessDetectionResult(ev, mode, r1, draw) ==
  /\ \A t \in Threads : threads[t].pc = "idle"
  /\ HandleDetection(ev, mode, r1, draw,
                     IncrementIp(ip_alert_counts, SourceIP(ev, r1)),
                     IncrementPort(port_alert_counts, TargetPort(ev)))
  /\ UNCHANGED threads

\* The event loop runs the oldest pending _process_alert task.
RunTask ==
  /\ tasks # <<>>
  /\ Unpack(ProcessAlert([Pack EXCEPT !.tasks = Tail(@)], Head(tasks), alert_rules,
                         db_fault, now, FALSE))
  /\ UNCHANGED <<now, alert_rules, ip_alert_counts, port_alert_counts, alert_counts,
                 ip_port_history, db_fault, nevents, cleanups, threads, last>>
  /\ UNCHANGED management

\* One iteration of cleanup_task: alert_counts.clear(), then sleep(300).
CleanupTask ==
  /\ cleanups < MaxCleanups
  /\ cleanups' = cleanups + 1
  /\ alert_counts' = {}
  /\ UNCHANGED <<now, alert_rules, ip_alert_counts, port_alert_counts, ip_port_history,
                 recent_alerts, tasks, alerts_collection, alert_history_collection,
                 log_lines, broadcasts, next_id, processed, db_fault, nevents, threads,
                 last>>
  /\ UNCHANGED management

\* Time passes: step seconds, up to max.
Tick(step, max) ==
  /\ now + step <= max
  /\ now' = now + step
  /\ UNCHANGED <<alert_rules, ip_alert_counts, port_alert_counts, alert_counts,
                 ip_port_history, recent_alerts, tasks, alerts_collection,
                 alert_history_collection, log_lines, broadcasts, next_id, processed,
                 db_fault, nevents, cleanups, threads, last>>
  /\ UNCHANGED management

\* A collaborator starts or stops failing.
SetFault(f) ==
  /\ f # db_fault
  /\ db_fault' = f
  /\ UNCHANGED <<now, alert_rules, ip_alert_counts, port_alert_counts, alert_counts,
                 ip_port_history, recent_alerts, tasks, alerts_collection,
                 alert_history_collection, log_lines, broadcasts, next_id, processed,
                 nevents, cleanups, threads, last>>
  /\ UNCHANGED management

\* The draws of _extract_source_ip that a call can read: one per rule that
\* has a same_ip_count condition when the event names an interface.
Draws(ev) ==
  LET reads == {i \in DOMAIN alert_rules :
                  ev.interface /\ "same_ip_count" \in alert_rules[i].conditions.keys}
      first == CHOOSE ip \in IPs : TRUE
  IN {[i \in DOMAIN alert_rules |-> IF i \in reads THEN f[i] ELSE first] :
        f \in [reads -> IPs]}

FirstDraws(ev) ==
  IF ev.src_ip = NoIP /\ ev.interface THEN IPs ELSE {CHOOSE ip \in IPs : TRUE}

\* ------------------------------------------------- rule evaluation: Spec
\* Rules as _load_alert_rules finds them in alert_rules_collection: one per
\* behavioural condition.
LoadedRules ==
  << MkRule("same_ip_3", "multiple_attacks",
            [NoConditions EXCEPT !.keys = {"same_ip_count"}, !.same_ip_count = 3],
            <<"websocket", "log", "store">>, NoValue),
     MkRule("ports_22_23", "high_risk_port",
            [NoConditions EXCEPT !.keys = {"ports"}, !.ports = {22, 23}],
            <<"websocket", "log", "store">>, NoValue),
     MkRule("repeat_2", "brute_force",
            [NoConditions EXCEPT !.keys = {"repeat_count"}, !.repeat_count = 2],
            <<"log", "store">>, NoValue) >>

Events ==
  { [BaseEvent EXCEPT !.src_ip = "192.168.1.1", !.dst_port = 80, !.feat = 22],
    [BaseEvent EXCEPT !.src_ip = "192.168.1.1", !.dst_port = 22, !.feat = 22,
                      !.interface = TRUE],
    BaseEvent,
    [BaseEvent EXCEPT !.interface = TRUE, !.feat = 80],
    [BaseEvent EXCEPT !.src_ip = "192.168.1.1", !.dst_port = 80, !.feat = BadFeature],
    [BaseEvent EXCEPT !.feat = BadFeature],
    [BaseEvent EXCEPT !.prediction = PredNormal, !.src_ip = "192.168.1.1",
                      !.dst_port = 80, !.feat = 80],
    [BaseEvent EXCEPT !.prediction = PredOne, !.src_ip = "192.168.1.1", !.dst_port = 80],
    [BaseEvent EXCEPT !.prediction = PredZero, !.src_ip = "192.168.1.1", !.dst_port = 80] }

Init == InitWith(LoadedRules)

Next ==
  \/ /\ nevents < MaxEvents
     /\ \E ev \in Events, mode \in {"idle", "noloop"} :
          \E r1 \in FirstDraws(ev), draw \in Draws(ev) :
            ProcessDetectionResult(ev, mode, r1, draw)
  \/ CleanupTask

Spec == Init /\ [][Next]_vars

\* C2: for a rule with same_ip_count = N (same_ip_3, N = 3), an attack event
\* from source address X satisfies the condition if and only if X's attack
\* counter, this event included, is at least N.
C2_SameIpCountIff ==
  (last.called /\ last.ev.prediction = PredAttack /\ last.source_ip \in IPs)
    => (("same_ip_3" \in last.matched) <=> (last.ipc[last.source_ip] >= 3))

\* C3: rule conditions fail closed on missing fields: with no source address
\* same_ip_count does not match, with no destination port neither ports nor
\* repeat_count matches, and evaluation does not raise.
C3_FailClosed ==
  (last.called /\ last.ev.prediction = PredAttack /\ last.ev.feat # BadFeature)
    => /\ last.source_ip = NoIP => "same_ip_3" \notin last.matched
       /\ last.target_port = NoPort
            => "ports_22_23" \notin last.matched /\ "repeat_2" \notin last.matched
       /\ ~last.exc

\* C4: a rule with ports = S (ports_22_23, S = {22, 23}) does not match an
\* event whose destination port, the one recorded on the alert, is not in S.
C4_PortsNotMember ==
  (last.called /\ last.ev.prediction = PredAttack /\ last.target_port \notin {22, 23})
    => "ports_22_23" \notin last.matched

\* C6: _check_port_scan_rule runs in every call of process_detection_result.
C6_ScanCheckedAlways == last.called => last.scan_checked

\* C7: after an iteration of the periodic reset every address' attack
\* counter, the one same_ip_count reads, is zero.
C7_ResetZeroesCounters ==
  [][cleanups' = cleanups + 1 => \A ip \in IPs : ip_alert_counts'[ip] = 0]_vars

\* ------------------------------------------- failing collaborators: SpecFaults
FaultEvents ==
  { [BaseEvent EXCEPT !.src_ip = "192.168.1.1", !.dst_port = 80, !.feat = 80],
    [BaseEvent EXCEPT !.src_ip = "192.168.1.1", !.dst_port = 80, !.feat = BadFeature],
    [BaseEvent EXCEPT !.prediction = PredOne, !.src_ip = "192.168.1.1", !.dst_port = 80],
    BaseEvent }

NextFaults ==
  \/ /\ nevents < MaxFaultEvents
     /\ \E ev \in FaultEvents, mode \in Modes :
          \E r1 \in FirstDraws(ev), draw \in Draws(ev) :
            ProcessDetectionResult(ev, mode, r1, draw)
  \/ RunTask
  \/ \E f \in Faults : SetFault(f)

SpecFaults == Init /\ [][NextFaults]_vars

Persisted(a) ==
  /\ a \in alerts_collection
  /\ [alert_id |-> a.id, action |-> "created"] \in alert_history_collection

\* C10: when persisting an alert or its "created" history entry fails in the
\* dispatcher, the fallback SECURITY ALERT line of that alert is logged, the
\* failure does not reach the caller and the alert stays in recent_alerts.
C10_FallbackLogged ==
  /\ ~last.propagated
  /\ \A e \in processed :
       \A a \in {x \in Range(recent_alerts) \cup alerts_collection : x.id = e[1]} :
         ~Persisted(a) => /\ <<"SECURITY ALERT", a.id>> \in log_lines
                          /\ a \in Range(recent_alerts)

\* ----------------------------------------------------- a port scan: SpecScan
\* One address walks the ports 1, 2, 3, ...: the event of call number n
\* carries destination port n, with an attack or a normal verdict.
ScanEvent(pred, port) ==
  [BaseEvent EXCEPT !.prediction = pred, !.src_ip = "192.168.1.1", !.dst_port = port,
                    !.feat = port]

NextScan ==
  \/ /\ nevents < MaxScanEvents
     /\ \E pred \in {PredAttack, PredNormal} :
          \E r1 \in FirstDraws(ScanEvent(pred, nevents + 1)),
             draw \in Draws(ScanEvent(pred, nevents + 1)) :
            ProcessDetectionResult(ScanEvent(pred, nevents + 1), "noloop", r1, draw)
  \/ Tick(TickStep, MaxTime)

SpecScan == Init /\ [][NextScan]_vars

PortScanAlerts == {a \in Range(recent_alerts) : a.rule_id = "port_scan_rule"}

\* C1: once the 10th of 10 events with 10 distinct destination ports from
\* one address within 10 seconds is processed, exactly one port-scan alert
\* (Port Scan, high, confidence 1.0, Rule-based) has been produced and the
\* address' history is cleared, so no further one follows until 10 new
\* distinct ports have accumulated.
C1_TenthEventFires ==
  \A ip \in IPs :
    /\ Cardinality(UniquePorts(ip_port_history[ip], now)) < PORT_SCAN_PORT_THRESHOLD
    /\ (nevents >= PORT_SCAN_PORT_THRESHOLD /\ now <= PORT_SCAN_WINDOW_SECONDS)
         => Cardinality(PortScanAlerts) = 1
    /\ \A a \in PortScanAlerts :
         /\ a.attack_type = "Port Scan" /\ a.level = "high"
         /\ a.confidence = 100 /\ a.model = "Rule-based"

\* ------------------------------------------- two event sources: SpecRace
\* The capture thread has no running event loop: get_event_loop() raises
\* there, or returns the closed loop a previous _process_alert_sync left.
\* The request path is a coroutine on the running loop.
ThreadModes(t) == IF t = "capture" THEN {"noloop", "idle"} ELSE {"running"}

RaceEvent == [BaseEvent EXCEPT !.src_ip = "192.168.1.1", !.dst_port = 80, !.feat = 80]

Running == {t \in Threads : threads[t].pc # "idle"}

Others ==
  <<now, alert_rules, alert_counts, ip_port_history, recent_alerts, tasks,
    alerts_collection, alert_history_collection, log_lines, broadcasts, next_id,
    processed, db_fault, nevents, cleanups, last, alert_rules_collection, startup, reply,
    alert_status, active_connections, fanout, delivered, accepted, iteration, probe>>

\* ip_alert_counts[source_ip] += 1 is a load, an add and a store; the
\* interpreter can switch threads between the load and the store.
LoadIpCount(t, ev) ==
  /\ threads[t].pc = "idle"
  /\ nevents + Cardinality(Running) < MaxRaceEvents
  /\ threads' = [threads EXCEPT ![t] = [pc |-> "ip_loaded", ev |-> ev,
                                        reg |-> ip_alert_counts[SourceIP(ev, NoIP)]]]
  /\ UNCHANGED <<ip_alert_counts, port_alert_counts>>
  /\ UNCHANGED Others

StoreIpCount(t) ==
  /\ threads[t].pc = "ip_loaded"
  /\ ip_alert_counts' =
       [ip_alert_counts EXCEPT ![SourceIP(threads[t].ev, NoIP)] = threads[t].reg + 1]
  /\ threads' = [threads EXCEPT ![t].pc = "ip_stored"]
  /\ UNCHANGED port_alert_counts
  /\ UNCHANGED Others

\* port_alert_counts[target_port] += 1, likewise.
LoadPortCount(t) ==
  /\ threads[t].pc = "ip_stored"
  /\ threads' = [threads EXCEPT ![t].pc = "port_loaded",
                                ![t].reg = port_alert_counts[TargetPort(threads[t].ev)]]
  /\ UNCHANGED <<ip_alert_counts, port_alert_counts>>
  /\ UNCHANGED Others

StorePortCount(t) ==
  /\ threads[t].pc = "port_loaded"
  /\ port_alert_counts' =
       [port_alert_counts EXCEPT ![TargetPort(threads[t].ev)] = threads[t].reg + 1]
  /\ threads' = [threads EXCEPT ![t].pc = "port_stored"]
  /\ UNCHANGED ip_alert_counts
  /\ UNCHANGED Others

\* The rest of the call: the history append, the rule loop, the port-scan
\* check.
FinishDetection(t) ==
  /\ threads[t].pc = "port_stored"
  /\ \E mode \in ThreadModes(t), draw \in Draws(threads[t].ev) :
       HandleDetection(threads[t].ev, mode, NoIP, draw,
                       ip_alert_counts, port_alert_counts)
  /\ threads' = [threads EXCEPT ![t] = IdleThread]

\* The event loop runs a pending task when it is not inside the request.
RunTaskOnLoop ==
  /\ threads["request"].pc = "idle"
  /\ RunTask

NextRace ==
  \/ \E t \in Threads : LoadIpCount(t, RaceEvent)
  \/ \E t \in Threads : StoreIpCount(t)
  \/ \E t \in Threads : LoadPortCount(t)
  \/ \E t \in Threads : StorePortCount(t)
  \/ \E t \in Threads : FinishDetection(t)
  \/ RunTaskOnLoop

SpecRace == Init /\ [][NextRace]_vars

\* C8: when the capture thread and the request path process attack events
\* of one address and one port concurrently, no increment is lost: once the
\* calls have completed, the address' counter and the port's counter both
\* equal the number of events.
C8_NoLostIncrement ==
  (Running = {})
    => /\ ip_alert_counts["192.168.1.1"] = nevents
       /\ port_alert_counts[80] = nevents

\* ------------------------------------- the default rules: SpecDefaults
DedupEvents ==
  { [BaseEvent EXCEPT !.src_ip = "192.168.1.1", !.dst_port = 80, !.feat = 80],
    [BaseEvent EXCEPT !.src_ip = "192.168.1.2", !.dst_port = 80, !.feat = 80] }

InitDefaults == InitWith(DefaultRules)

NextDefaults ==
  \/ /\ nevents < MaxDedupEvents
     /\ \E ev \in DedupEvents, mode \in {"idle", "noloop"} :
          \E r1 \in FirstDraws(ev), draw \in Draws(ev) :
            ProcessDetectionResult(ev, mode, r1, draw)
  \/ Tick(DedupTick, MaxDedupTime)

SpecDefaults == InitDefaults /\ [][NextDefaults]_vars

SameKey(a, b) ==
  /\ a.source_ip = b.source_ip
  /\ a.alert_type = b.alert_type
  /\ a.level = b.level
  /\ a.model = b.model

\* The alert's rule is in the store and lists the action.
HasAction(a, action) ==
  \E r \in RulesById(alert_rules, a.rule_id) : action \in Range(r.actions)

\* The second alert got no live notification, its log line was written and
\* both alerts are stored.
DedupOutcome(a, b) ==
  /\ b.id \notin broadcasts
  /\ <<"SECURITY ALERT", b.id>> \in log_lines
  /\ Persisted(a)
  /\ Persisted(b)

\* C5 as stated: of two alerts with the same address, type, level and model
\* dispatched less than 5 seconds apart, the second gets no live
\* notification, is logged, and both are stored and in recent_alerts.
C5_DedupWithinFiveSeconds ==
  \A i, j \in DOMAIN recent_alerts :
    LET a == recent_alerts[i]
        b == recent_alerts[j]
    IN (/\ i < j
        /\ SameKey(a, b)
        /\ \E ta, tb \in 0 .. MaxDedupTime :
             /\ <<a.id, ta>> \in processed
             /\ <<b.id, tb>> \in processed
             /\ tb - ta < DedupSeconds)
         => DedupOutcome(a, b)

\* C5, amended: the same holds when, as the second alert's actions run, the
\* first is among the 50 newest entries of recent_alerts and was created
\* less than 5 seconds earlier, and the second's rule has the log action.
C5_DedupInScanWindow ==
  \A i, j \in DOMAIN recent_alerts :
    LET a == recent_alerts[i]
        b == recent_alerts[j]
    IN (/\ i < j
        /\ j - i < DedupScan
        /\ SameKey(a, b)
        /\ HasAction(b, "log")
        /\ \E tb \in 0 .. MaxDedupTime :
             /\ <<b.id, tb>> \in processed
             /\ tb - a.timestamp < DedupSeconds)
         => DedupOutcome(a, b)

\* Two alerts of one key from two calls 3 seconds apart: the first went to
\* the websocket clients, the second was suppressed and logged.
C5_Witness ==
  \E i, j \in DOMAIN recent_alerts :
    LET a == recent_alerts[i]
        b == recent_alerts[j]
    IN /\ i < j
       /\ j - i < DedupScan
       /\ SameKey(a, b)
       /\ a.timestamp < b.timestamp
       /\ b.timestamp - a.timestamp < DedupSeconds
       /\ <<b.id, b.timestamp>> \in processed
       /\ a.id \in broadcasts
       /\ DedupOutcome(a, b)

\* ---------------------------------------------------- the rule loop: Spec
\* C11: for every positive-detection event the rules that produced an alert
\* are exactly the enabled rules whose recognised conditions all hold (for
\* same_ip_count, with whichever address _extract_source_ip draws); a rule
\* with no recognised key matches every such event.
C11_OneAlertPerMatchingRule ==
  (last.called /\ last.ev.prediction \in {PredAttack, PredOne})
    => \A i \in DOMAIN alert_rules :
         LET rule == alert_rules[i]
             holds(rip) ==
               CheckRuleConditions(rule, last.ev, rip, last.ipc, last.ppc) = "match"
         IN /\ (rule.enabled /\ \A rip \in IPs : holds(rip)) => rule.id \in last.matched
            /\ rule.id \in last.matched => (rule.enabled /\ \E rip \in IPs : holds(rip))

\* --------------------------------------------- pure functions: SpecPure
\* One call of a pure function per behaviour: Init draws the arguments,
\* the step applies the function.
LevelProbes ==
  [fn : {"level"}, done : {FALSE}, confidence : 0 .. 100,
   alert_type : {"threat_detected", "zero_day_attack", "anomaly_detected"}, out : {""}]

AttackTypeProbes ==
  [fn : {"attack_type"}, done : {FALSE}, port : {22, 80, 4444, 9999, 12000},
   histlen : 1 .. MaxHistLen, protocol : {"TCP", "UDP", "ICMP"}, label : {"", "DDoS"},
   tcp_flags : {"", "SYNONLY"}, out : {""}]

ConfidenceProbes ==
  [fn : {"confidence"}, done : {FALSE}, kind : {"probability", "anomaly_score"},
   raw : 0 .. MaxRaw, threshold : 1 .. MaxThreshold, out : {NoValue}]

\* The result dict of the confidence probe.
ConfidenceResult(kind, raw, threshold) ==
  [BaseEvent EXCEPT !.probability = IF kind = "probability" THEN raw ELSE NoValue,
                    !.anomaly_score = IF kind = "anomaly_score" THEN raw ELSE NoValue,
                    !.threshold = threshold]

InitPure ==
  /\ EngineInit(LoadedRules)
  /\ alert_rules_collection = [i \in DOMAIN LoadedRules |-> AsDict(LoadedRules[i])]
  /\ startup = "done"
  /\ QuietManagement
  /\ probe \in LevelProbes \cup AttackTypeProbes \cup ConfidenceProbes

Engine ==
  <<now, alert_rules, ip_alert_counts, port_alert_counts, alert_counts, ip_port_history,
    recent_alerts, tasks, alerts_collection, alert_history_collection, log_lines,
    broadcasts, next_id, processed, db_fault, nevents, cleanups, threads, last>>

ApplyProbe(out) ==
  /\ ~probe.done
  /\ probe' = [probe EXCEPT !.out = out, !.done = TRUE]
  /\ UNCHANGED Engine
  /\ UNCHANGED <<alert_rules_collection, startup, reply, alert_status, active_connections,
                 fanout, delivered, accepted, iteration>>

\* The severity _create_alert gives.
ApplyAlertLevel ==
  /\ probe.fn = "level"
  /\ ApplyProbe(AlertLevel(probe.confidence, probe.alert_type))

\* The attack type process_detection_result attaches.
ApplyInferAttackType ==
  /\ probe.fn = "attack_type"
  /\ ApplyProbe(InferAttackType([BaseEvent EXCEPT !.protocol = probe.protocol,
                                                  !.attack_type = probe.label,
                                                  !.tcp_flags = probe.tcp_flags],
                                probe.port, probe.histlen))

\* _calculate_confidence(result)
ApplyCalculateConfidence ==
  /\ probe.fn = "confidence"
  /\ ApplyProbe(CalculateConfidence(
                  ConfidenceResult(probe.kind, probe.raw, probe.threshold)))

NextPure ==
  \/ ApplyAlertLevel
  \/ ApplyInferAttackType
  \/ ApplyCalculateConfidence

SpecPure == InitPure /\ [][NextPure]_vars

\* C12: severity is critical iff confidence >= 0.9 or the rule's category
\* is zero_day_attack; else high iff confidence >= 0.8; else medium iff
\* confidence >= 0.6; else low.
C12_SeverityTiers ==
  (probe.fn = "level" /\ probe.done)
    => LET c == probe.confidence
           zero == probe.alert_type = "zero_day_attack"
       IN /\ probe.out \in {"critical", "high", "medium", "low"}
          /\ (probe.out = "critical") <=> (c >= 90 \/ zero)
          /\ (probe.out = "high") <=> (c >= 80 /\ c < 90 /\ ~zero)
          /\ (probe.out = "medium") <=> (c >= 60 /\ c < 80 /\ ~zero)
          /\ (probe.out = "low") <=> (c < 60 /\ ~zero)

\* A zero_day_attack rule at confidence 0.5 gave critical.
C12_Witness ==
  /\ probe.fn = "level"
  /\ probe.done
  /\ probe.confidence = 50
  /\ probe.alert_type = "zero_day_attack"
  /\ probe.out = "critical"

\* The probe is an attack event over TCP with no label and no SYN-only
\* flags.
UnlabelledTcp ==
  /\ probe.fn = "attack_type"
  /\ probe.done
  /\ probe.protocol = "TCP"
  /\ probe.label = ""
  /\ probe.tcp_flags = ""

\* C13 as stated: port 22 gives "SSH Brute Force", port 9999 with a history
\* of 6 gives "Port Scan", port 9999 with a history of 2 gives no label.
C13_Port9999Unmapped ==
  UnlabelledTcp
    => /\ probe.port = 22 => probe.out = "SSH Brute Force"
       /\ (probe.port = 9999 /\ probe.histlen = 6) => probe.out = "Port Scan"
       /\ (probe.port = 9999 /\ probe.histlen = 2) => probe.out = ""

\* C13, amended: port 22 gives "SSH Brute Force"; port 9999 is in the port
\* table and gives "Reverse Shell" whatever the history; a port outside the
\* table (12000) gives "Port Scan" with a history of 6 and no label with a
\* history of 2.
C13_InferAttackType ==
  UnlabelledTcp
    => /\ probe.port = 22 => probe.out = "SSH Brute Force"
       /\ probe.port = 9999 => probe.out = "Reverse Shell"
       /\ (probe.port = 12000 /\ probe.histlen = 6) => probe.out = "Port Scan"
       /\ (probe.port = 12000 /\ probe.histlen = 2) => probe.out = ""

\* Port 9999 with a history of 6 entries was labelled "Reverse Shell".
C13_Witness ==
  /\ UnlabelledTcp
  /\ probe.port = 9999
  /\ probe.histlen = 6
  /\ probe.out = "Reverse Shell"

\* C20: with a known positive threshold the confidence is one of 0.55,
\* 0.60, 0.65, 0.70, 0.75, 0.85, 0.95, its bands have their edges at ratio
\* > 5, > 2, > 1 and (anomaly score) > 0.5, and it does not decrease when
\* the ratio raw / threshold grows.
C20_ConfidenceBands ==
  (probe.fn = "confidence" /\ probe.done)
    => LET raw == probe.raw
           thr == probe.threshold
           band == IF raw > 5 * thr THEN 95
                   ELSE IF raw > 2 * thr THEN 85
                   ELSE IF raw > thr THEN (IF probe.kind = "probability" THEN 70 ELSE 75)
                   ELSE IF probe.kind = "probability" THEN 60
                   ELSE IF 2 * raw > thr THEN 65
                   ELSE 55
       IN /\ probe.out \in {55, 60, 65, 70, 75, 85, 95}
          /\ probe.out = band
          /\ \A raw2 \in 0 .. MaxRaw, thr2 \in 1 .. MaxThreshold :
               raw2 * thr <= raw * thr2
                 => CalculateConfidence(ConfidenceResult(probe.kind, raw2, thr2))
                      <= probe.out

\* An anomaly score between half the threshold and the threshold gave 0.65,
\* or a probability above 5 times the threshold gave 0.95.
C20_Witness ==
  /\ probe.fn = "confidence"
  /\ probe.done
  /\ \/ probe.kind = "anomaly_score" /\ probe.raw = 1 /\ probe.threshold = 1
        /\ probe.out = 65
     \/ probe.kind = "probability" /\ probe.raw > 5 * probe.threshold /\ probe.out = 95

\* ------------------------------------------------ the rule store: SpecStore
\* The fields of an AlertRule that are modelled; enabled and threshold have
\* defaults (True, None).
RequiredFields == {"id", "alert_type", "conditions", "actions"}

OptionalFields == {"enabled", "threshold"}

\* AlertRule(**data) raises TypeError on a missing or an unexpected field.
Constructible(data) ==
  /\ RequiredFields \subseteq DOMAIN data
  /\ DOMAIN data \subseteq RequiredFields \cup OptionalFields

\* A rule that is always enabled, whatever was submitted.
NewAlertRuleEnabled(data, key) ==
  [f \in RequiredFields \cup OptionalFields \cup {"key"} |->
     IF f = "key" THEN key
     ELSE IF f = "enabled" THEN TRUE
     ELSE IF f \in DOMAIN data THEN data[f]
     ELSE NoValue]

\* AlertRule(**data), as the entry stored under key.
NewAlertRule(data, key) ==
  [f \in RequiredFields \cup OptionalFields \cup {"key"} |->
     IF f = "key" THEN key
     ELSE IF f \in DOMAIN data THEN data[f]
     ELSE IF f = "enabled" THEN TRUE
     ELSE NoValue]

\* alert_rules[key] = rule: a new key goes last, a known key keeps its place.
DictSet(rules, key, rule) ==
  IF \E i \in DOMAIN rules : rules[i].key = key
    THEN [i \in DOMAIN rules |-> IF rules[i].key = key THEN [rule EXCEPT !.key = key]
                                 ELSE rules[i]]
    ELSE Append(rules, [rule EXCEPT !.key = key])

\* del alert_rules[key]
DictDel(rules, key) ==
  LET keep == {i \in DOMAIN rules : rules[i].key # key}
      nth[k \in 0 .. Len(rules)] ==
        IF k = 0 THEN <<>>
        ELSE IF k \in keep THEN Append(nth[k - 1], rules[k]) ELSE nth[k - 1]
  IN nth[Len(rules)]

\* The first document with this id, 0 when there is none.
FirstDoc(docs, id) ==
  LET hits == {i \in DOMAIN docs : "id" \in DOMAIN docs[i] /\ docs[i].id = id}
  IN IF hits = {} THEN 0 ELSE CHOOSE i \in hits : \A j \in hits : i <= j

\* update_one({"id": id}, {"$set": doc})
UpdateOne(docs, id, doc) ==
  IF FirstDoc(docs, id) = 0 THEN docs
  ELSE [docs EXCEPT ![FirstDoc(docs, id)] =
          [f \in DOMAIN @ \cup DOMAIN doc |-> IF f \in DOMAIN doc THEN doc[f] ELSE @[f]]]

\* delete_one({"id": id})
DeleteOne(docs, id) ==
  IF FirstDoc(docs, id) = 0 THEN docs
  ELSE [i \in 1 .. Len(docs) - 1 |-> IF i < FirstDoc(docs, id) THEN docs[i] ELSE docs[i + 1]]

\* _create_default_rules on the cache rules and the collection docs: each
\* default rule is cached, then inserted.  With the collection unavailable
\* the first insert_one raises.
CreateDefaultRules(rules, docs, fault) ==
  LET upto[k \in 0 .. Len(DefaultRules)] ==
        IF k = 0 THEN rules ELSE DictSet(upto[k - 1], DefaultRules[k].id, DefaultRules[k])
  IN IF fault = "rules"
       THEN [rules |-> upto[1], docs |-> docs, raised |-> TRUE]
       ELSE [rules |-> upto[Len(DefaultRules)],
             docs |-> docs \o [k \in DOMAIN DefaultRules |-> AsDict(DefaultRules[k])],
             raised |-> FALSE]

\* _load_alert_rules: the enabled documents are cached in order; an empty
\* result, a document AlertRule(**doc) rejects and an unavailable collection
\* end in _create_default_rules.  found is what the load met.
LoadAlertRules(docs, fault) ==
  LET hits == {i \in DOMAIN docs : "enabled" \in DOMAIN docs[i] /\ docs[i].enabled = TRUE}
      bad == {i \in hits : ~Constructible(docs[i])}
      stop == IF bad = {} THEN Len(docs) + 1 ELSE CHOOSE i \in bad : \A j \in bad : i <= j
      upto[k \in 0 .. Len(docs)] ==
        IF k = 0 THEN <<>>
        ELSE IF k \in hits /\ k < stop
          THEN DictSet(upto[k - 1], docs[k].id, NewAlertRule(docs[k], docs[k].id))
        ELSE upto[k - 1]
      loaded == upto[Len(docs)]
  IN IF fault = "rules"
       THEN [CreateDefaultRules(<<>>, docs, fault) EXCEPT !.raised = TRUE]
              @@ [found |-> "unreadable"]
     ELSE IF bad # {} THEN CreateDefaultRules(loaded, docs, fault) @@ [found |-> "malformed"]
     ELSE IF loaded = <<>> THEN CreateDefaultRules(loaded, docs, fault) @@ [found |-> "empty"]
     ELSE [rules |-> loaded, docs |-> docs, raised |-> FALSE, found |-> "loaded"]

EngineButRules ==
  <<now, ip_alert_counts, port_alert_counts, alert_counts, ip_port_history,
    recent_alerts, tasks, alerts_collection, alert_history_collection, log_lines,
    broadcasts, next_id, processed, db_fault, nevents, cleanups, threads, last>>

Sockets == <<alert_status, active_connections, fanout, delivered, accepted, iteration, probe>>

\* alert_manager = AlertManager()
Construct ==
  /\ startup = "pending"
  /\ LET res == LoadAlertRules(alert_rules_collection, db_fault)
     IN /\ alert_rules' = res.rules
        /\ alert_rules_collection' = res.docs
        /\ startup' = IF res.raised THEN "failed" ELSE "done"
        /\ reply' = [NoReply EXCEPT !.op = "startup", !.ok = ~res.raised, !.key = res.found]
  /\ UNCHANGED EngineButRules
  /\ UNCHANGED Sockets

\* The ids uuid4 hands out, in order.
NewIds == <<"new-1", "new-2", "new-3">>

\* POST /rules by a user with the alert_management permission.
CreateRule(data) ==
  LET key == NewIds[reply.created + 1]
      full == [f \in DOMAIN data \cup {"id"} |-> IF f = "id" THEN key ELSE data[f]]
      made == Constructible(full)
      stored == made /\ db_fault # "rules"
  IN /\ startup = "done"
     /\ reply.n < MaxStoreOps
     /\ alert_rules' = IF made THEN DictSet(alert_rules, key, NewAlertRule(full, key))
                       ELSE alert_rules
     /\ alert_rules_collection' =
          IF stored THEN Append(alert_rules_collection, AsDict(NewAlertRule(full, key)))
          ELSE alert_rules_collection
     /\ reply' = [op |-> "create", ok |-> stored, key |-> key, data |-> data,
                  n |-> reply.n + 1, created |-> reply.created + 1]
     /\ UNCHANGED <<startup>>
     /\ UNCHANGED EngineButRules
     /\ UNCHANGED Sockets

\* setattr(rule, key, value) for every key of update_data the rule has.
SetAttrs(rule, update_data) ==
  [f \in DOMAIN rule |->
     IF f # "key" /\ f \in DOMAIN update_data THEN update_data[f] ELSE rule[f]]

\* update_rule(rule_id, update_data), behind PUT /rules/{rule_id}.
UpdateRule(rule_id, update_data) ==
  LET found == RulesById(alert_rules, rule_id)
      rule == SetAttrs(CHOOSE r \in found : TRUE, update_data)
  IN /\ startup = "done"
     /\ reply.n < MaxStoreOps
     /\ IF found = {}
          THEN /\ UNCHANGED <<alert_rules, alert_rules_collection>>
               /\ reply' = [reply EXCEPT !.op = "update", !.ok = FALSE, !.key = rule_id,
                                         !.data = update_data, !.n = @ + 1]
          ELSE /\ alert_rules' = DictSet(alert_rules, rule_id, rule)
               /\ alert_rules_collection' =
                    IF db_fault = "rules" THEN alert_rules_collection
                    ELSE UpdateOne(alert_rules_collection, rule_id, AsDict(rule))
               /\ reply' = [reply EXCEPT !.op = "update", !.ok = db_fault # "rules",
                                         !.key = rule_id, !.data = update_data, !.n = @ + 1]
     /\ UNCHANGED <<startup>>
     /\ UNCHANGED EngineButRules
     /\ UNCHANGED Sockets

\* delete_rule(rule_id), behind DELETE /rules/{rule_id}.
DeleteRule(rule_id) ==
  LET known == RulesById(alert_rules, rule_id) # {}
  IN /\ startup = "done"
     /\ reply.n < MaxStoreOps
     /\ alert_rules' = IF known THEN DictDel(alert_rules, rule_id) ELSE alert_rules
     /\ alert_rules_collection' =
          IF known /\ db_fault # "rules" THEN DeleteOne(alert_rules_collection, rule_id)
          ELSE alert_rules_collection
     /\ reply' = [reply EXCEPT !.op = "delete", !.ok = known /\ db_fault # "rules",
                               !.key = rule_id, !.data = <<>>, !.n = @ + 1]
     /\ UNCHANGED <<startup>>
     /\ UNCHANGED EngineButRules
     /\ UNCHANGED Sockets

\* What alert_rules_collection can hold when the process starts.
PersistedRuleSets ==
  { <<>>,
    [i \in DOMAIN LoadedRules |-> AsDict(LoadedRules[i])],
    [i \in DOMAIN LoadedRules |-> AsDict([LoadedRules[i] EXCEPT !.enabled = (i # 2)])],
    << AsDict(LoadedRules[1]), [id |-> "broken", enabled |-> TRUE] >>,
    << AsDict([DefaultRules[1] EXCEPT !.enabled = FALSE]) >> }

RuleSubmissions ==
  { [alert_type |-> "threat_detected", conditions |-> NoConditions,
     actions |-> <<"log", "store">>],
    [alert_type |-> "brute_force",
     conditions |-> [NoConditions EXCEPT !.keys = {"ports"}, !.ports = {80}],
     actions |-> <<"websocket", "log">>, enabled |-> FALSE, threshold |-> 80],
    [id |-> "threat_detection", alert_type |-> "threat_detected",
     conditions |-> NoConditions, actions |-> <<"log">>, enabled |-> TRUE],
    [alert_type |-> "threat_detected"],
    [alert_type |-> "threat_detected", conditions |-> NoConditions,
     actions |-> <<"log">>, severity |-> "high"] }

RuleUpdates ==
  { [enabled |-> FALSE], [enabled |-> TRUE, threshold |-> 99],
    [id |-> "high_confidence_threat"], [owner |-> "soc"] }

ManagedKeys ==
  {"threat_detection", "same_ip_3", "new-1", "missing"}

InitStore ==
  /\ EngineInit(<<>>)
  /\ alert_rules_collection \in PersistedRuleSets
  /\ startup = "pending"
  /\ QuietManagement
  /\ probe = NoProbe

NextStore ==
  \/ Construct
  \/ \E f \in {"none", "rules"} : SetFault(f)
  \/ \E data \in RuleSubmissions : CreateRule(data)
  \/ \E rule_id \in ManagedKeys, update_data \in RuleUpdates : UpdateRule(rule_id, update_data)
  \/ \E rule_id \in ManagedKeys : DeleteRule(rule_id)
  \/ /\ startup = "done"
     /\ nevents < MaxStoreEvents
     /\ \E mode \in {"idle", "noloop"} :
          \E r1 \in FirstDraws(RaceEvent), draw \in Draws(RaceEvent) :
            ProcessDetectionResult(RaceEvent, mode, r1, draw)

SpecStore == InitStore /\ [][NextStore]_vars

\* The ids of a sequence of rules or documents are pairwise different.
UniqueIds(seq) ==
  \A i, j \in DOMAIN seq :
    ("id" \in DOMAIN seq[i] /\ "id" \in DOMAIN seq[j] /\ seq[i].id = seq[j].id) => i = j

\* C14: once the manager is constructed, every rule of the store has an id
\* no other rule has: no two cached rules and no two persisted rules share an
\* id, and a cached rule is filed under its own id.
C14_RuleIdsUnique ==
  startup = "done" =>
    /\ UniqueIds(alert_rules)
    /\ UniqueIds(alert_rules_collection)
    /\ \A i \in DOMAIN alert_rules : alert_rules[i].key = alert_rules[i].id

\* The ids of the rules that were enabled when the last call ran.
EnabledAtCall == {last.rules[i].id : i \in {j \in DOMAIN last.rules : last.rules[j].enabled}}

\* The rule-based alerts the last call created.
CreatedByCall ==
  {a \in Range(recent_alerts) \cup Range(tasks) \cup alerts_collection :
     a.id >= last.first_id /\ a.rule_id # "port_scan_rule"}

\* C15: a rule that is disabled produces no alert.  Every rule a call of
\* process_detection_result matched, and every rule named by an alert the
\* call created, was enabled in the cache when the call ran; and, as long as
\* no management operation has touched the store since the startup load, no
\* alert names a rule that the persistent collection holds as disabled.
C15_DisabledNeverFires ==
  last.called =>
    /\ last.matched \subseteq EnabledAtCall
    /\ \A a \in CreatedByCall : a.rule_id \in EnabledAtCall
    /\ reply.n = 0 =>
         \A a \in CreatedByCall : \A i \in DOMAIN alert_rules_collection :
           ("id" \in DOMAIN alert_rules_collection[i]
              /\ alert_rules_collection[i].id = a.rule_id)
             => alert_rules_collection[i].enabled

\* C18: the construction of the AlertManager never fails; when the load did
\* not end with rules read from the collection (it was empty, held a
\* malformed rule or could not be read), every default rule is in the cache
\* under its id.
C18_StartupNeverFails ==
  /\ startup # "failed"
  /\ (reply.op = "startup" /\ reply.key # "loaded") =>
       \A k \in DOMAIN DefaultRules :
         \E i \in DOMAIN alert_rules :
           /\ alert_rules[i].key = DefaultRules[k].id
           /\ AsDict(alert_rules[i]) = AsDict(DefaultRules[k])

\* The fields of a cached rule that the create operation does not assign.
SubmittedFields(data) == DOMAIN data \ {"id"}

\* C19: when the create operation answered with an id, get_rule_by_id of that
\* id finds one rule, and the rule has the value that was submitted in every
\* submitted field but the id; a field that was not submitted has the
\* default of AlertRule.
C19_CreateFetchRoundTrip ==
  (reply.op = "create" /\ reply.ok) =>
    LET found == RulesById(alert_rules, reply.key)
    IN /\ Cardinality(found) = 1
       /\ \A r \in found :
            /\ r.id = reply.key
            /\ \A f \in SubmittedFields(reply.data) : r[f] = reply.data[f]
            /\ "enabled" \notin DOMAIN reply.data => r.enabled = TRUE
            /\ "threshold" \notin DOMAIN reply.data => r.threshold = NoValue

\* A rule submitted as disabled, with a threshold, was created and stored.
C19_Witness ==
  /\ reply.op = "create"
  /\ reply.ok
  /\ "enabled" \in DOMAIN reply.data
  /\ reply.data.enabled = FALSE
  /\ RulesById(alert_rules, reply.key) # {}
  /\ \E i \in DOMAIN alert_rules_collection : alert_rules_collection[i].id = reply.key


\* ------------------------------------ acknowledge and resolve: SpecAck
Users == {"alice", "bob"}

NoUser == "None"

\* The acknowledgment and resolution fields of a stored alert as asdict(alert)
\* writes them.
Unacknowledged ==
  [acknowledged |-> FALSE, acknowledged_by |-> NoUser, acknowledged_at |-> NoValue,
   resolved |-> FALSE, resolved_by |-> NoUser, resolved_at |-> NoValue]

StatusOf(alert_id) ==
  IF alert_id \in DOMAIN alert_status THEN alert_status[alert_id] ELSE Unacknowledged

\* alerts_collection.update_one({"id": alert_id}, {"$set": fields}): the
\* new fields and modified_count > 0.
SetStatus(alert_id, fields) ==
  LET matched == \E a \in alerts_collection : a.id = alert_id
      new == [f \in DOMAIN Unacknowledged |->
                IF f \in DOMAIN fields THEN fields[f] ELSE StatusOf(alert_id)[f]]
  IN [modified |-> matched /\ new # StatusOf(alert_id), new |-> new]

\* The request handler around the update: 404 when nothing was modified,
\* else a history entry.
StatusRequest(op, alert_id, fields) ==
  LET res == SetStatus(alert_id, fields)
  IN /\ startup = "done"
     /\ reply.n < MaxAckOps
     /\ alert_status' = IF res.modified
                          THEN [i \in DOMAIN alert_status \cup {alert_id} |->
                                  IF i = alert_id THEN res.new ELSE alert_status[i]]
                          ELSE alert_status
     /\ alert_history_collection' =
          IF res.modified
            THEN alert_history_collection \cup {[alert_id |-> alert_id, action |-> op]}
            ELSE alert_history_collection
     /\ reply' = [reply EXCEPT !.op = op, !.ok = res.modified, !.n = @ + 1]
     /\ UNCHANGED <<now, alert_rules, ip_alert_counts, port_alert_counts, alert_counts,
                    ip_port_history, recent_alerts, tasks, alerts_collection, log_lines,
                    broadcasts, next_id, processed, db_fault, nevents, cleanups, threads,
                    last>>
     /\ UNCHANGED <<alert_rules_collection, startup, active_connections, fanout,
                    delivered, accepted, iteration, probe>>

\* POST /{alert_id}/acknowledge by username.
AcknowledgeAlert(alert_id, username) ==
  StatusRequest("acknowledged", alert_id,
                [acknowledged |-> TRUE, acknowledged_by |-> username,
                 acknowledged_at |-> now])

\* POST /{alert_id}/resolve by username.
ResolveAlert(alert_id, username) ==
  StatusRequest("resolved", alert_id,
                [resolved |-> TRUE, resolved_by |-> username, resolved_at |-> now])

\* The ids a request can name: the first alerts and one that does not exist.
AlertIds == {1, 2, 99}

InitAck == InitWith(SubSeq(DefaultRules, 1, 2))

NextAck ==
  \/ /\ nevents < MaxAckEvents
     /\ \E r1 \in FirstDraws(RaceEvent), draw \in Draws(RaceEvent) :
          ProcessDetectionResult(RaceEvent, "idle", r1, draw)
  \/ \E alert_id \in AlertIds, username \in Users : AcknowledgeAlert(alert_id, username)
  \/ \E alert_id \in AlertIds, username \in Users : ResolveAlert(alert_id, username)
  \/ Tick(1, MaxAckTime)

SpecAck == InitAck /\ [][NextAck]_vars

\* C16: the acknowledgment fields and the resolution fields of an alert are
\* set once: when an alert is acknowledged (resolved), no step changes its
\* acknowledged_by or acknowledged_at (resolved_by or resolved_at).
C16_SetExactlyOnce ==
  [][\A i \in DOMAIN alert_status :
       /\ alert_status[i].acknowledged =>
            /\ alert_status'[i].acknowledged
            /\ alert_status'[i].acknowledged_by = alert_status[i].acknowledged_by
            /\ alert_status'[i].acknowledged_at = alert_status[i].acknowledged_at
       /\ alert_status[i].resolved =>
            /\ alert_status'[i].resolved
            /\ alert_status'[i].resolved_by = alert_status[i].resolved_by
            /\ alert_status'[i].resolved_at = alert_status[i].resolved_at]_vars

\* --------------------------------------- the websocket fan-out: SpecFanout
\* The WebSocket objects; each is accepted once.
Clients == {"ws1", "ws2", "ws3"}

EngineAndStore ==
  <<now, alert_rules, ip_alert_counts, port_alert_counts, alert_counts, ip_port_history,
    recent_alerts, tasks, alerts_collection, alert_history_collection, broadcasts,
    next_id, processed, db_fault, nevents, cleanups, threads, last,
    alert_rules_collection, startup, reply, alert_status, iteration, probe>>

\* broadcast_alert gives up the event loop only in await send_text: other
\* coroutines run between two calls or while a send is awaited.
Yielded == ~fanout.active \/ fanout.sending # ""

\* websocket_endpoint up to add_connection.  With a fan-out in progress the
\* set iterator meets the new element or not, as its hash places it.
Connect(c) ==
  /\ Yielded
  /\ c \notin accepted
  /\ accepted' = accepted \cup {c}
  /\ active_connections' = active_connections \cup {c}
  /\ \E ahead \in BOOLEAN :
       fanout' = IF fanout.active /\ ahead THEN [fanout EXCEPT !.todo = @ \cup {c}]
                 ELSE fanout
  /\ UNCHANGED <<delivered, log_lines>>
  /\ UNCHANGED EngineAndStore

\* WebSocketDisconnect in websocket_endpoint: remove_connection.
Disconnect(c) ==
  /\ Yielded
  /\ c \in active_connections
  /\ active_connections' = active_connections \ {c}
  /\ fanout' = IF fanout.active
                 THEN [fanout EXCEPT !.todo = @ \ {c}, !.left = @ \cup {c}]
                 ELSE fanout
  /\ UNCHANGED <<delivered, accepted, log_lines>>
  /\ UNCHANGED EngineAndStore

\* broadcast_alert up to the for loop; it returns at once with no connection.
StartBroadcast ==
  /\ ~fanout.active
  /\ fanout.alert < MaxBroadcasts
  /\ fanout' = [NoFanout EXCEPT !.active = active_connections # {},
                                !.alert = fanout.alert + 1,
                                !.start = active_connections,
                                !.size = Cardinality(active_connections),
                                !.todo = active_connections]
  /\ UNCHANGED <<active_connections, delivered, accepted, log_lines>>
  /\ UNCHANGED EngineAndStore

\* The set iterator's check before every element, the last one included.
SetChangedSize == Cardinality(active_connections) # fanout.size

\* The for loop takes the next websocket and calls send_text.
NextWebsocket(c) ==
  /\ fanout.active
  /\ fanout.sending = ""
  /\ ~SetChangedSize
  /\ c \in fanout.todo
  /\ fanout' = [fanout EXCEPT !.todo = @ \ {c}, !.sending = c]
  /\ UNCHANGED <<active_connections, delivered, accepted, log_lines>>
  /\ UNCHANGED EngineAndStore

\* await websocket.send_text returns or raises.
SendText(ok) ==
  /\ fanout.active
  /\ fanout.sending # ""
  /\ fanout' = [fanout EXCEPT !.sending = "",
                              !.failed = IF ok THEN @ ELSE @ \cup {fanout.sending}]
  /\ delivered' = IF ok THEN delivered \cup {<<fanout.sending, fanout.alert>>}
                  ELSE delivered
  /\ UNCHANGED <<active_connections, accepted, log_lines>>
  /\ UNCHANGED EngineAndStore

\* The end of the for loop: the clients whose send raised are discarded.
FinishBroadcast ==
  /\ fanout.active
  /\ fanout.sending = ""
  /\ ~SetChangedSize
  /\ fanout.todo = {}
  /\ active_connections' = active_connections \ fanout.failed
  /\ fanout' = [fanout EXCEPT !.active = FALSE]
  /\ UNCHANGED <<delivered, accepted, log_lines>>
  /\ UNCHANGED EngineAndStore

\* RuntimeError "Set changed size during iteration" leaves broadcast_alert;
\* _execute_alert_actions logs it.
AbortBroadcast ==
  /\ fanout.active
  /\ fanout.sending = ""
  /\ SetChangedSize
  /\ fanout' = [fanout EXCEPT !.active = FALSE, !.raised = TRUE]
  /\ log_lines' = log_lines \cup {<<"Error executing action", fanout.alert>>}
  /\ UNCHANGED <<active_connections, delivered, accepted>>
  /\ UNCHANGED EngineAndStore

InitFanout == InitWith(LoadedRules)

NextFanout ==
  \/ \E c \in Clients : Connect(c)
  \/ \E c \in Clients : Disconnect(c)
  \/ StartBroadcast
  \/ \E c \in Clients : NextWebsocket(c)
  \/ \E ok \in BOOLEAN : SendText(ok)
  \/ FinishBroadcast
  \/ AbortBroadcast

SpecFanout == InitFanout /\ [][NextFanout]_vars

\* C17: when a call of broadcast_alert has ended, every subscriber that was
\* connected when it started has received the alert, unless its own send
\* failed or it disconnected; and the subscribers whose send failed are no
\* longer in the subscriber set.
C17_FanoutIsolatesFailures ==
  (~fanout.active /\ fanout.alert > 0) =>
    /\ \A c \in fanout.start \ (fanout.failed \cup fanout.left) :
         <<c, fanout.alert>> \in delivered
    /\ fanout.failed \cap active_connections = {}

\* ------------------------------------ detection, dispatch and the rule store
\* C21: a call of process_detection_result with prediction "Attack" or 1
\* (and a feature vector that can be read) is a positive detection: the
\* counter of the event's source address and the counter of its destination
\* port go up by one and the rule loop runs to its end; with prediction
\* "Normal" or 0 no counter changes and no rule matches.
C21_PositiveDetection ==
  [][nevents' = nevents + 1 =>
       LET ev == last'.ev
       IN /\ (ev.prediction \in {PredAttack, PredOne} /\ ev.feat # BadFeature) =>
               /\ ev.src_ip # NoIP =>
                    ip_alert_counts'[ev.src_ip] = ip_alert_counts[ev.src_ip] + 1
               /\ ev.dst_port # NoPort =>
                    port_alert_counts'[ev.dst_port] = port_alert_counts[ev.dst_port] + 1
               /\ ~last'.exc
          /\ ev.prediction \in {PredNormal, PredZero} =>
               /\ ip_alert_counts' = ip_alert_counts
               /\ port_alert_counts' = port_alert_counts
               /\ last'.matched = {}]_vars

\* C22: record, then evaluate.  In a call for an attack event the rules are
\* evaluated against the counters as the call's own increments leave them,
\* so a rule with repeat_count 2 matches exactly when the counter of the
\* event's destination port, this event included, has reached 2.
C22_RecordThenEvaluate ==
  [][(nevents' = nevents + 1 /\ last'.ev.prediction = PredAttack /\ ~last'.exc) =>
       /\ last'.ipc = ip_alert_counts'
       /\ last'.ppc = port_alert_counts'
       /\ last'.source_ip # NoIP =>
            ip_alert_counts'[last'.source_ip] = ip_alert_counts[last'.source_ip] + 1
       /\ last'.target_port # NoPort =>
            /\ port_alert_counts'[last'.target_port]
                 = port_alert_counts[last'.target_port] + 1
            /\ ("repeat_2" \in last'.matched)
                 <=> (port_alert_counts'[last'.target_port] >= 2)]_vars

\* ----------------------- the rule loop, one rule at a time: SpecIter
\* The capture thread runs process_detection_result for an attack event that
\* names its address and port, while the event-loop thread serves the rule
\* management.  The interpreter can switch threads between two rules.
StoreAndSockets ==
  <<alert_rules, alert_rules_collection, startup, reply, alert_status,
    active_connections, fanout, delivered, accepted, probe>>

\* Lines 398-506 and the iterator of `for rule in self.alert_rules.values()`,
\* which remembers the size of the dict.
BeginDetection(ev, mode) ==
  /\ ~iteration.active
  /\ nevents < MaxIterEvents
  /\ nevents' = nevents + 1
  /\ ip_alert_counts' = IncrementIp(ip_alert_counts, ev.src_ip)
  /\ port_alert_counts' = IncrementPort(port_alert_counts, ev.dst_port)
  /\ ip_port_history' =
       [ip_port_history EXCEPT ![ev.src_ip] =
          DequeAppend(@, <<ev.dst_port, now>>, HistoryMaxLen)]
  /\ iteration' = [NoIteration EXCEPT !.active = TRUE, !.ev = ev, !.mode = mode,
                                      !.used = Len(alert_rules), !.before = alert_rules]
  /\ UNCHANGED <<now, alert_counts, recent_alerts, tasks, alerts_collection,
                 alert_history_collection, log_lines, broadcasts, next_id, processed,
                 db_fault, cleanups, threads, last>>
  /\ UNCHANGED StoreAndSockets

\* The dict iterator raises RuntimeError when the dict has changed size.
DictChangedSize == Len(alert_rules) # iteration.used

\* The entries the iterator has not passed yet, in insertion order.
NotSeen == {i \in DOMAIN alert_rules : alert_rules[i].key \notin iteration.seen}

\* One round of the loop: lines 510-546 for the next rule.
EvalNextRule ==
  /\ iteration.active
  /\ ~DictChangedSize
  /\ NotSeen # {}
  /\ LET i == CHOOSE k \in NotSeen : \A j \in NotSeen : k <= j
         rule == alert_rules[i]
         ev == iteration.ev
         res == CheckRuleConditions(rule, ev, NoIP, ip_alert_counts, port_alert_counts)
         atype == InferAttackType(ev, ev.dst_port, Len(ip_port_history[ev.src_ip]))
         alert == CreateAlert(rule, ev, ev.src_ip, ev.dst_port, CalculateConfidence(ev),
                              atype, next_id, now)
         fires == Considered(rule) /\ res = "match"
     IN /\ iteration' =
             [iteration EXCEPT
                !.seen = @ \cup {rule.key},
                !.evaluated = IF Considered(rule) THEN @ \cup {rule.key} ELSE @,
                !.matched = IF fires THEN @ \cup {rule.key} ELSE @]
        /\ IF fires
             THEN Unpack(Dispatch([Pack EXCEPT !.nid = @ + 1], alert, alert_rules,
                                  db_fault, now, iteration.mode))
             ELSE UNCHANGED <<recent_alerts, tasks, alerts_collection,
                              alert_history_collection, log_lines, broadcasts, next_id,
                              processed>>
  /\ UNCHANGED <<now, ip_alert_counts, port_alert_counts, alert_counts, ip_port_history,
                 db_fault, nevents, cleanups, threads, last>>
  /\ UNCHANGED StoreAndSockets

\* RuntimeError "dictionary changed size during iteration" leaves the loop
\* and is caught by the except clause of process_detection_result.
IterationRaises ==
  /\ iteration.active
  /\ DictChangedSize
  /\ iteration' = [iteration EXCEPT !.active = FALSE, !.ended = TRUE, !.raised = TRUE,
                                    !.after = alert_rules]
  /\ UNCHANGED <<now, ip_alert_counts, port_alert_counts, alert_counts, ip_port_history,
                 recent_alerts, tasks, alerts_collection, alert_history_collection,
                 log_lines, broadcasts, next_id, processed, db_fault, nevents, cleanups,
                 threads, last>>
  /\ UNCHANGED StoreAndSockets

\* The loop is through: _check_port_scan_rule (line 548).
FinishIteration ==
  /\ iteration.active
  /\ ~DictChangedSize
  /\ NotSeen = {}
  /\ LET ip == iteration.ev.src_ip
         scan == CheckPortScanRule(Pack, ip_port_history[ip], ip, alert_rules, db_fault,
                                   now, iteration.mode)
     IN /\ Unpack(scan.d)
        /\ ip_port_history' = [ip_port_history EXCEPT ![ip] = scan.hist]
  /\ iteration' = [iteration EXCEPT !.active = FALSE, !.ended = TRUE,
                                    !.scan_checked = TRUE, !.after = alert_rules]
  /\ UNCHANGED <<now, ip_alert_counts, port_alert_counts, alert_counts, db_fault,
                 nevents, cleanups, threads, last>>
  /\ UNCHANGED StoreAndSockets

InitIter == InitWith(LoadedRules)

NextIter ==
  \/ \E mode \in ThreadModes("capture") : BeginDetection(RaceEvent, mode)
  \/ EvalNextRule
  \/ IterationRaises
  \/ FinishIteration
  \/ \E data \in RuleSubmissions : CreateRule(data)
  \/ \E rule_id \in ManagedKeys, update_data \in RuleUpdates : UpdateRule(rule_id, update_data)
  \/ \E rule_id \in ManagedKeys : DeleteRule(rule_id)

SpecIter == InitIter /\ [][NextIter]_vars

\* The enabled rules that were in the store, unchanged, from the start of the
\* loop to its end.
Bystanders ==
  {r.key : r \in {x \in Range(iteration.before) : x.enabled /\ x \in Range(iteration.after)}}

\* C23: a call of process_detection_result whose rule loop ran while rules
\* were created, updated or deleted has evaluated every enabled rule that
\* the writes did not touch, and has run the port-scan check.
C23_WritesDoNotDisturb ==
  iteration.ended =>
    /\ Bystanders \subseteq iteration.evaluated
    /\ iteration.scan_checked

\* ------------------------------------------- the port history: SpecHistory
\* Events of one address on one port, of every kind of prediction, more of
\* them than a port history holds.
HistoryEvents ==
  {[RaceEvent EXCEPT !.prediction = p] : p \in {PredAttack, PredNormal, PredOne, PredZero}}

InitHistory == InitWith(SubSeq(DefaultRules, 1, 1))

NextHistory ==
  /\ nevents < MaxHistoryEvents
  /\ \E ev \in HistoryEvents :
       \E r1 \in FirstDraws(ev), draw \in Draws(ev) :
         ProcessDetectionResult(ev, "noloop", r1, draw)

SpecHistory == InitHistory /\ [][NextHistory]_vars

\* The port-scan alerts among the alerts with an id from first on.
ScanAlertsFrom(first, recent) ==
  {a \in Range(recent) : a.id >= first /\ a.rule_id = "port_scan_rule"}

\* C24: a call for a non-attack event changes no attack counter and matches
\* no rule; a call for an event with a source address and a destination
\* port, attack or not, appends (port, now) to the address' port history,
\* which holds at most 20 entries and drops its oldest entry when full (the
\* history is emptied when the call raises a port-scan alert).
C24_HistoryAlwaysAppended ==
  [][nevents' = nevents + 1 =>
       LET ev == last'.ev
           old == ip_port_history[ev.src_ip]
           new == ip_port_history'[ev.src_ip]
           entry == <<ev.dst_port, now>>
       IN /\ ev.prediction \in {PredNormal, PredZero} =>
               /\ ip_alert_counts' = ip_alert_counts
               /\ port_alert_counts' = port_alert_counts
               /\ last'.matched = {}
          /\ (ev.src_ip # NoIP /\ ev.dst_port # NoPort) =>
               /\ Len(new) <= HistoryMaxLen
               /\ \/ new = DequeAppend(old, entry, HistoryMaxLen)
                  \/ /\ ScanAlertsFrom(next_id, recent_alerts') # {}
                     /\ new \in {<<>>, <<entry>>}]_vars

\* C25: for a TCP event without an attack label whose tcp_flags are SYNONLY
\* the inferred attack type is "SYN Flood", whatever the destination port.
C25_SynFloodOverrides ==
  (/\ probe.fn = "attack_type"
   /\ probe.done
   /\ probe.protocol = "TCP"
   /\ probe.label = ""
   /\ probe.tcp_flags = "SYNONLY")
    => probe.out = "SYN Flood"

\* --------------------- two threads inside the alert dispatcher: SpecGroup
\* The capture thread (asyncio.run or _process_alert_sync) and the event-loop
\* thread (a _process_alert task) each process the alert of an attack event;
\* the store holds one rule.  Between recent_alerts.append with the two
\* insert_one calls and _execute_alert_actions the interpreter can switch
\* threads.
AlertById(id) == CHOOSE a \in Range(recent_alerts) : a.id = id

\* process_detection_result up to the match of the rule, and _process_alert
\* up to the second insert_one.
AppendAlert(t, ev) ==
  LET rule == alert_rules[1]
      ipc == IncrementIp(ip_alert_counts, ev.src_ip)
      ppc == IncrementPort(port_alert_counts, ev.dst_port)
      hist == DequeAppend(ip_port_history[ev.src_ip], <<ev.dst_port, now>>, HistoryMaxLen)
      alert == CreateAlert(rule, ev, ev.src_ip, ev.dst_port, CalculateConfidence(ev),
                           InferAttackType(ev, ev.dst_port, Len(hist)), next_id, now)
  IN /\ threads[t].pc = "idle"
     /\ nevents < MaxGroupEvents
     /\ Considered(rule)
     /\ CheckRuleConditions(rule, ev, NoIP, ipc, ppc) = "match"
     /\ nevents' = nevents + 1
     /\ ip_alert_counts' = ipc
     /\ port_alert_counts' = ppc
     /\ ip_port_history' = [ip_port_history EXCEPT ![ev.src_ip] = hist]
     /\ next_id' = next_id + 1
     /\ recent_alerts' = DequeAppend(recent_alerts, alert, RecentMaxLen)
     /\ processed' = processed \cup {<<alert.id, now>>}
     /\ alerts_collection' = alerts_collection \cup {alert}
     /\ alert_history_collection' =
          alert_history_collection \cup {[alert_id |-> alert.id, action |-> "created"]}
     /\ threads' = [threads EXCEPT ![t] = [pc |-> "appended", ev |-> ev, reg |-> alert.id]]
     /\ UNCHANGED <<now, alert_rules, alert_counts, tasks, log_lines, broadcasts, db_fault,
                    cleanups, last>>
     /\ UNCHANGED management

\* alert_rules.get(alert.rule_id), _execute_alert_actions, and the rest of
\* process_detection_result.
ExecuteActions(t) ==
  LET alert == AlertById(threads[t].reg)
      found == RulesById(alert_rules, alert.rule_id)
      rule == CHOOSE r \in found : TRUE
      d == IF found = {} THEN Pack
           ELSE ExecuteAlertActions(Pack, alert, rule.actions, db_fault, now)
      ip == threads[t].ev.src_ip
      scan == CheckPortScanRule(d, ip_port_history[ip], ip, alert_rules, db_fault, now,
                                "noloop")
  IN /\ threads[t].pc = "appended"
     /\ Unpack(scan.d)
     /\ ip_port_history' = [ip_port_history EXCEPT ![ip] = scan.hist]
     /\ threads' = [threads EXCEPT ![t] = IdleThread]
     /\ UNCHANGED <<now, alert_rules, ip_alert_counts, port_alert_counts, alert_counts,
                    db_fault, nevents, cleanups, last>>
     /\ UNCHANGED management

InitGroup == InitWith(SubSeq(DefaultRules, 1, 1))

NextGroup ==
  \/ \E t \in Threads : AppendAlert(t, RaceEvent)
  \/ \E t \in Threads : ExecuteActions(t)
  \/ /\ Running = {}
     /\ Tick(DedupTick, MaxDedupTime)

SpecGroup == InitGroup /\ [][NextGroup]_vars

\* The alerts of recent_alerts with the address, type, level and model of a.
GroupOf(a) == {b \in Range(recent_alerts) : SameKey(a, b)}

\* C26: dedup never suppresses a whole group.  When no alert is being
\* processed and all the alerts that share an alert's address, type, level
\* and model were created less than 5 seconds from it, and its rule lists
\* the websocket action, at least one alert of the group went to the live
\* subscribers.
C26_GroupNeverSilent ==
  Running = {} =>
    \A a \in Range(recent_alerts) :
      (/\ HasAction(a, "websocket")
       /\ \A b \in GroupOf(a) :
            a.timestamp - b.timestamp < DedupSeconds /\ b.timestamp - a.timestamp < DedupSeconds)
        => \E b \in GroupOf(a) : b.id \in broadcasts

\* Another alert of the same address, type, level and model is in
\* recent_alerts, created less than 5 seconds from a.
HasNearDuplicate(a) ==
  \E b \in GroupOf(a) :
    /\ b.id # a.id
    /\ a.timestamp - b.timestamp < DedupSeconds
    /\ b.timestamp - a.timestamp < DedupSeconds

\* C27: every alert that was processed had an action list executed for it:
\* it was logged, and it went to the live subscribers unless a near
\* duplicate suppressed it.  This holds for the port-scan alerts of
\* _check_port_scan_rule as for the alerts of the rules.
C27_EveryAlertHasActions ==
  \A a \in Range(recent_alerts) :
    /\ <<"SECURITY ALERT", a.id>> \in log_lines
    /\ (a.rule_id = "port_scan_rule" /\ ~HasNearDuplicate(a)) => a.id \in broadcasts

\* ---------------------------------------------------------------------
\* Deferred execution: process_detection_result runs on the event loop, so
\* every matched alert becomes a _process_alert task (loop.create_task).
\* The task runs when the loop reaches it; the handlers of PUT and DELETE
\* /rules that were ready before it run first.
\* ---------------------------------------------------------------------

\* Bodies of PUT /rules/{rule_id}.
DeferredUpdates ==
  { [actions |-> <<"store">>], [id |-> "renamed"], [threshold |-> 99] }

InitDeferred == InitWith(SubSeq(DefaultRules, 1, 2))

NextDeferred ==
  \/ /\ nevents < MaxDeferredEvents
     /\ \E r1 \in FirstDraws(RaceEvent), draw \in Draws(RaceEvent) :
          ProcessDetectionResult(RaceEvent, "running", r1, draw)
  \/ RunTask
  \/ \E rule_id \in {"threat_detection", "high_confidence_threat"},
        update_data \in DeferredUpdates : UpdateRule(rule_id, update_data)
  \/ \E rule_id \in {"threat_detection", "high_confidence_threat"} : DeleteRule(rule_id)

SpecDeferred == InitDeferred /\ [][NextDeferred]_vars

\* The actions the rule of alert a listed when the last call matched it,
\* for a rule that was then stored under its own id.
ActionsAtMatch(a) ==
  UNION {Range(last.rules[i].actions) :
           i \in {j \in DOMAIN last.rules : /\ last.rules[j].id = a.rule_id
                                            /\ last.rules[j].key = a.rule_id}}

\* C28: an alert of the last call whose _process_alert has run had the
\* action list executed that its rule held when it matched, whatever was
\* done to the rule in between: it was logged if the list had "log", and it
\* went to the live subscribers if the list had "websocket" and no near
\* duplicate suppressed it.
C28_ActionsOfTheMatch ==
  \A a \in CreatedByCall :
    (\E d \in processed : d[1] = a.id) =>
      /\ "log" \in ActionsAtMatch(a) => <<"SECURITY ALERT", a.id>> \in log_lines
      /\ ("websocket" \in ActionsAtMatch(a) /\ ~HasNearDuplicate(a)) => a.id \in broadcasts

\* C29: the suppression of live notifications only concerns repeats of one
\* rule's alert.  An alert whose rule lists the websocket action went to the
\* live subscribers unless an alert of the same rule, with the same address,
\* type, level and model, was created less than 5 seconds from it: an alert
\* of another rule never keeps it back.
C29_OnlySameRuleSuppresses ==
  \A a \in Range(recent_alerts) :
    (HasAction(a, "websocket") /\ a.id \notin broadcasts) =>
      \E b \in GroupOf(a) :
        /\ b.id # a.id
        /\ b.rule_id = a.rule_id
        /\ a.timestamp - b.timestamp < DedupSeconds
        /\ b.timestamp - a.timestamp < DedupSeconds

\* The rules of the cache, as documents, are the documents of the collection.
StoreAgrees(rules, docs) == {AsDict(rules[i]) : i \in DOMAIN rules} = Range(docs)

\* C30: a create, update or delete of a rule that starts with the cache and
\* the persistent collection in agreement ends with them in agreement, and a
\* request that is answered with an error leaves the cache as it was.
C30_CacheFollowsCollection ==
  [][(reply'.n = reply.n + 1 /\ StoreAgrees(alert_rules, alert_rules_collection)) =>
       /\ StoreAgrees(alert_rules', alert_rules_collection')
       /\ ~reply'.ok => alert_rules' = alert_rules]_vars
====
